---------------------------- MODULE Spec2Model ----------------------------
(***************************************************************************)
(* People Bingo backend (src/backend.py): the session registry `games`,    *)
(* the request handlers and the ConnectionManager that broadcasts session  *)
(* events to websockets.                                                   *)
(*                                                                         *)
(* Execution model.  The handlers are asyncio coroutines on one event      *)
(* loop: a handler runs without interruption up to an `await` that really  *)
(* suspends.  The only such awaits are `connection.send_json(message)`     *)
(* inside ConnectionManager.broadcast (line 65) and the websocket          *)
(* endpoint's accept/receive.  So one action of the model is one           *)
(* uninterrupted run of a coroutine between two suspension points.         *)
(*                                                                         *)
(* Strings whose contents the code inspects (str.upper, str.strip) are     *)
(* sequences of one-character strings.  Player names are never inspected   *)
(* and stay TLA+ strings.  Indices are 0-based as in the source.           *)
(*                                                                         *)
(* Fields the code only writes and never reads (created_at, joined_at) are *)
(* left out.                                                               *)
(***************************************************************************)
EXTENDS Integers, Sequences, FiniteSets, TLC

(***************************************************************************)
(* Bounds of the model.                                                    *)
(***************************************************************************)
\* Cells of a grid; the source has 25 (5x5).  Scaled down, with the free
\* cell kept in the middle.
GridSize == 3
\* time.time() returns a value of 0..MaxTime.
MaxTime == 1
\* Handlers that may be suspended inside broadcast at the same time.
MaxTasks == 2
\* Events published in one behaviour.
MaxEvents == 5
\* Sessions created in one behaviour.
MaxGames == 2

(***************************************************************************)
(* Program constants.                                                      *)
(***************************************************************************)
\* random.choices(..., k=6)
CodeLen == 6
\* CreateGameRequest.duration default
DefaultDuration == 15
\* "start_time": None, "finish_time": None
None == -1

\* index 12 of 25: the middle cell
FreeIndex == GridSize \div 2
Indices == 0 .. (GridSize - 1)
Times == 0 .. MaxTime

(***************************************************************************)
(* Strings as character sequences.                                         *)
(***************************************************************************)
\* str.upper() on one character, for the characters the model uses.
UpperChar(c) ==
  CASE c = "a" -> "A"
    [] c = "b" -> "B"
    [] OTHER -> c

\* str.upper()
Upper(s) == [i \in DOMAIN s |-> UpperChar(s[i])]

Whitespace == {" ", "\t"}

RECURSIVE LStrip(_)
LStrip(s) ==
  IF s # <<>> /\ Head(s) \in Whitespace THEN LStrip(Tail(s)) ELSE s

RECURSIVE RStrip(_)
RStrip(s) ==
  IF s # <<>> /\ s[Len(s)] \in Whitespace
    THEN RStrip(SubSeq(s, 1, Len(s) - 1))
    ELSE s

\* str.strip()
Strip(s) == RStrip(LStrip(s))

\* string.ascii_uppercase + string.digits, the part of it the model draws from
Alphabet == {"A", "B", "7"}

\* The results of generate_game_code() that the model draws.
GeneratedCodes ==
  { c \in [1 .. CodeLen -> Alphabet] :
      /\ c[1] \in {"A", "B"}
      /\ c[2] \in {"B", "7"}
      /\ \A i \in 3 .. CodeLen : c[i] = "7" }

\* get_default_cells(), scaled to GridSize cells
get_default_cells ==
  [i \in Indices |->
     IF i = FreeIndex
       THEN <<"F", "R", "E", "E", " ", "S", "P", "A", "C", "E">>
       ELSE <<"P", "r", "o", "m", "p", "t">>]

(***************************************************************************)
(* State.                                                                  *)
(***************************************************************************)
VARIABLES
  games,               \* game code -> session (line 43)
  active_connections,  \* game code -> list of websockets (line 48)
  sockets,             \* websocket -> its connection state and game code
  inbox,               \* websocket -> the messages delivered to it, in order
  tasks,               \* slot -> handler suspended inside broadcast
  called,              \* the request whose handler the step just taken started
  last,                \* the response the step just taken handed to a caller
  emitted,             \* the event the step just taken handed to broadcast
  event_seq,           \* number of events handed to broadcast so far
  created,             \* the codes create_game has returned, in order
  finish_returns       \* the positions finish_game has returned

vars == <<games, active_connections, sockets, inbox, tasks, called, last,
          emitted, event_seq, created, finish_returns>>

WebSockets == {"w1", "w2", "w3"}
Slots == 1 .. MaxTasks

NoEvent == [type |-> "none"]

\* broadcast(game_code, message)
Emission(game_code, msg) == [game_code |-> game_code, msg |-> msg]
NoEmission == Emission(<<>>, NoEvent)

\* What is known of one broadcast call when it has ended: the message, the
\* websockets that were in the list from its start to its end, and its
\* dead_connections.
Publication(msg, steady, dead) ==
  [msg |-> msg, steady |-> steady, dead |-> dead]

NoPublication == Publication(NoEvent, {}, <<>>)

\* A request: the fields of the pydantic models (lines 76-99) in one record.
Request(op, code, name, index, value) ==
  [op |-> op, game_code |-> code, player_name |-> name, index |-> index,
   value |-> value]

\* What a handler hands back to its caller: a return value (status 200) or an
\* HTTPException (404, 400) or an uncaught exception (500).
Response(req, status, detail, position) ==
  [req |-> req, status |-> status, detail |-> detail, position |-> position,
   insights |-> <<>>, pub |-> NoPublication]

NoRequest == Request("none", <<>>, "", 0, <<>>)
NoResponse == Response(NoRequest, 0, "", 0)

Init ==
  /\ games = <<>>
  /\ active_connections = <<>>
  /\ sockets = [w \in WebSockets |-> [state |-> "new", game_code |-> <<>>]]
  /\ inbox = [w \in WebSockets |-> <<>>]
  /\ tasks = <<>>
  /\ called = NoRequest
  /\ last = NoResponse
  /\ emitted = NoEmission
  /\ event_seq = 0
  /\ created = <<>>
  /\ finish_returns = {}


(***************************************************************************)
(* Helpers on Python dicts and lists.                                      *)
(***************************************************************************)
\* d[k] = v
Put(d, k, v) == [x \in DOMAIN d \cup {k} |-> IF x = k THEN v ELSE d[x]]

Elems(list) == {list[i] : i \in DOMAIN list}

\* list.index(x) + 1, for x in list
FirstIndex(list, x) ==
  CHOOSE i \in DOMAIN list :
    list[i] = x /\ \A j \in DOMAIN list : list[j] = x => i <= j

\* list.remove(x), for x in list: drops the first occurrence
Remove(list, x) ==
  LET i == FirstIndex(list, x)
  IN  SubSeq(list, 1, i - 1) \o SubSeq(list, i + 1, Len(list))

\* "for conn in dead_connections: ...remove(conn)" (lines 70-71).  remove
\* raises ValueError for an element that is not in the list; the removals
\* made before that stay.
RECURSIVE remove_dead(_, _)
remove_dead(list, dead) ==
  IF dead = <<>> THEN [raised |-> FALSE, list |-> list]
  ELSE IF Head(dead) \notin Elems(list) THEN [raised |-> TRUE, list |-> list]
  ELSE remove_dead(Remove(list, Head(dead)), Tail(dead))

\* list.sort(key=lambda x: x["elapsed"]) (line 288): a stable sort, as an
\* insertion sort that puts an element after the elements not greater.
RECURSIVE InsertByElapsed(_, _)
InsertByElapsed(sorted, rec) ==
  IF sorted = <<>> THEN <<rec>>
  ELSE IF Head(sorted).elapsed <= rec.elapsed
    THEN <<Head(sorted)>> \o InsertByElapsed(Tail(sorted), rec)
    ELSE <<rec>> \o sorted

\* finish_game without line 288: the list stays in the order of the appends.
NotSorted(list) == list

RECURSIVE SortByElapsed(_)
SortByElapsed(list) ==
  IF list = <<>> THEN <<>>
  ELSE InsertByElapsed(SortByElapsed(SubSeq(list, 1, Len(list) - 1)),
                       list[Len(list)])

(***************************************************************************)
(* Handlers, as functions of the request and the state they run in.  The   *)
(* outcome of the part of a handler before its `await manager.broadcast`:  *)
(*   kind "raise"   an exception ends the handler,                         *)
(*   kind "return"  the handler returns without broadcasting,              *)
(*   kind "publish" the handler calls broadcast with msg.                  *)
(* `games` of the outcome is the registry as the handler leaves it.        *)
(***************************************************************************)
Raise(g, status, detail) ==
  [kind |-> "raise", games |-> g, status |-> status, detail |-> detail,
   msg |-> NoEvent]

Return(g, detail) ==
  [kind |-> "return", games |-> g, status |-> 200, detail |-> detail,
   msg |-> NoEvent]

Publish(g, msg) ==
  [kind |-> "publish", games |-> g, status |-> 200, detail |-> "",
   msg |-> msg]

\* create_game without its loop: the first code drawn is taken.
create_code_no_retry(draws) == Head(draws)

\* generate_game_code() until the code is not a key of games (lines 121-123):
\* draws is the sequence of codes the generator yields.
RECURSIVE create_code(_)
create_code(draws) ==
  IF Head(draws) \in DOMAIN games
    THEN create_code(Tail(draws))
    ELSE Head(draws)

\* The session create_game stores (lines 125-134).
NewGame(code, duration) ==
  [code |-> code,
   cells |-> get_default_cells,
   players |-> <<>>,
   started |-> FALSE,
   duration |-> duration,
   start_time |-> None,
   finished |-> <<>>]

\* The entry join_game stores (lines 156-162).
NewPlayer(name) ==
  [name |-> name,
   grid |-> [i \in Indices |-> <<>>],
   completed |-> FALSE,
   finish_time |-> None]

\* get_game (lines 138-142): the code is looked up as given.
get_game(req) ==
  IF req.game_code \notin DOMAIN games
    THEN Raise(games, 404, "Game not found")
    ELSE Return(games, "game")

\* The inner loop of get_insights without its test: blank entries are kept.
RECURSIVE collect_entries_no_strip(_, _, _)
collect_entries_no_strip(players, names, idx) ==
  IF names = {}
    THEN <<>>
    ELSE LET player == players[CHOOSE n \in names : TRUE]
             name == player.grid[idx]
         IN  <<name>> \o
               collect_entries_no_strip(players, names \ {player.name}, idx)

\* get_insights, the inner loop (lines 312-316): the entries of the players
\* in `names` at idx that are not blank, each as it was entered.  The order
\* of the roster, which the model does not keep, does not reach the result.
RECURSIVE collect_entries(_, _, _)
collect_entries(players, names, idx) ==
  IF names = {}
    THEN <<>>
    ELSE LET player == players[CHOOSE n \in names : TRUE]
             name == player.grid[idx]
             rest == collect_entries(players, names \ {player.name}, idx)
         IN  IF Strip(name) # <<>> THEN <<name>> \o rest ELSE rest

\* counts[name] = counts.get(name, 0) + 1 for each entry (lines 319-321)
RECURSIVE count_entries(_)
count_entries(entries) ==
  IF entries = <<>>
    THEN <<>>
    ELSE LET counts == count_entries(Tail(entries))
             name == Head(entries)
         IN  Put(counts, name,
                 (IF name \in DOMAIN counts THEN counts[name] ELSE 0) + 1)

\* the records of the indices from idx on (lines 308-329)
RECURSIVE insights_from(_, _)
insights_from(game, idx) ==
  IF idx >= GridSize THEN <<>>
  ELSE IF idx = FreeIndex THEN insights_from(game, idx + 1)
  ELSE LET entries == collect_entries(game.players, DOMAIN game.players, idx)
           counts == count_entries(entries)
       IN  <<[index |-> idx,
              cell |-> game.cells[idx],
              total_entries |-> Len(entries),
              unique_entries |-> Cardinality(DOMAIN counts),
              name_counts |-> counts]>> \o insights_from(game, idx + 1)

\* get_insights (lines 301-331): the code is looked up as given.
get_insights(req) ==
  IF req.game_code \notin DOMAIN games
    THEN [insights |-> <<>>] @@ Raise(games, 404, "Game not found")
    ELSE [insights |-> insights_from(games[req.game_code], 0)]
           @@ Return(games, "insights")

\* join_game without its test of the roster: a known name is entered again.
join_game_rejoin(req) ==
  LET game_code == Upper(req.game_code)
  IN  IF game_code \notin DOMAIN games
        THEN Raise(games, 404, "Game not found")
      ELSE
        LET players == Put(games[game_code].players, req.player_name,
                           NewPlayer(req.player_name))
            g == [games EXCEPT ![game_code].players = players]
        IN  Publish(g, [type |-> "player_joined",
                        player_name |-> req.player_name,
                        player_count |-> Cardinality(DOMAIN players)])

\* join_game up to its broadcast (lines 145-169)
join_game(req) ==
  LET game_code == Upper(req.game_code)
  IN  IF game_code \notin DOMAIN games
        THEN Raise(games, 404, "Game not found")
      ELSE IF req.player_name \in DOMAIN games[game_code].players
        THEN Return(games, "Player already in game")
      ELSE
        LET players == Put(games[game_code].players, req.player_name,
                           NewPlayer(req.player_name))
            g == [games EXCEPT ![game_code].players = players]
        IN  Publish(g, [type |-> "player_joined",
                        player_name |-> req.player_name,
                        player_count |-> Cardinality(DOMAIN players)])

\* update_cell without its test of the free cell.
update_cell_free_editable(req) ==
  LET game_code == Upper(req.game_code)
  IN  IF game_code \notin DOMAIN games
        THEN Raise(games, 404, "Game not found")
      ELSE IF games[game_code].started
        THEN Raise(games, 400, "Cannot edit cells after game started")
      ELSE IF req.index < 0 \/ req.index >= GridSize
        THEN Raise(games, 400, "Invalid cell index")
      ELSE
        Publish([games EXCEPT ![game_code].cells[req.index] = req.value],
                [type |-> "cell_updated", index |-> req.index,
                 value |-> req.value])

\* update_cell up to its broadcast (lines 174-198)
update_cell(req) ==
  LET game_code == Upper(req.game_code)
  IN  IF game_code \notin DOMAIN games
        THEN Raise(games, 404, "Game not found")
      ELSE IF games[game_code].started
        THEN Raise(games, 400, "Cannot edit cells after game started")
      ELSE IF req.index < 0 \/ req.index >= GridSize
        THEN Raise(games, 400, "Invalid cell index")
      ELSE IF req.index = FreeIndex
        THEN Raise(games, 400, "Cannot edit FREE SPACE")
      ELSE
        Publish([games EXCEPT ![game_code].cells[req.index] = req.value],
                [type |-> "cell_updated", index |-> req.index,
                 value |-> req.value])

\* start_game without its test of "started".
start_game_restart(req, now) ==
  LET game_code == Upper(req.game_code)
  IN  IF game_code \notin DOMAIN games
        THEN Raise(games, 404, "Game not found")
      ELSE IF Cardinality(DOMAIN games[game_code].players) = 0
        THEN Raise(games, 400, "No players in game")
      ELSE
        Publish([games EXCEPT ![game_code].started = TRUE,
                              ![game_code].start_time = now],
                [type |-> "game_started", start_time |-> now])

\* start_game up to its broadcast (lines 203-224); now is time.time()
start_game(req, now) ==
  LET game_code == Upper(req.game_code)
  IN  IF game_code \notin DOMAIN games
        THEN Raise(games, 404, "Game not found")
      ELSE IF games[game_code].started
        THEN Raise(games, 400, "Game already started")
      ELSE IF Cardinality(DOMAIN games[game_code].players) = 0
        THEN Raise(games, 400, "No players in game")
      ELSE
        Publish([games EXCEPT ![game_code].started = TRUE,
                              ![game_code].start_time = now],
                [type |-> "game_started", start_time |-> now])

\* update_player_cell without its test of `started`: a grid is filled in the
\* lobby.
update_player_cell_in_lobby(req) ==
  LET game_code == Upper(req.game_code)
  IN  IF game_code \notin DOMAIN games
        THEN Raise(games, 404, "Game not found")
      ELSE IF req.player_name \notin DOMAIN games[game_code].players
        THEN Raise(games, 404, "Player not found")
      ELSE IF games[game_code].players[req.player_name].completed
        THEN Raise(games, 400, "Player already finished")
      ELSE IF req.index < 0 \/ req.index >= GridSize
        THEN Raise(games, 400, "Invalid cell index")
      ELSE
        Return([games EXCEPT
                  ![game_code].players[req.player_name].grid[req.index] =
                     req.value],
               "Cell updated")

\* update_player_cell without its test of `completed`: a player who has
\* finished edits the grid.
update_player_cell_after_finish(req) ==
  LET game_code == Upper(req.game_code)
  IN  IF game_code \notin DOMAIN games
        THEN Raise(games, 404, "Game not found")
      ELSE IF ~games[game_code].started
        THEN Raise(games, 400, "Game not started yet")
      ELSE IF req.player_name \notin DOMAIN games[game_code].players
        THEN Raise(games, 404, "Player not found")
      ELSE IF req.index < 0 \/ req.index >= GridSize
        THEN Raise(games, 400, "Invalid cell index")
      ELSE
        Return([games EXCEPT
                  ![game_code].players[req.player_name].grid[req.index] =
                     req.value],
               "Cell updated")

\* update_player_cell (lines 229-253): no broadcast
update_player_cell(req) ==
  LET game_code == Upper(req.game_code)
  IN  IF game_code \notin DOMAIN games
        THEN Raise(games, 404, "Game not found")
      ELSE IF ~games[game_code].started
        THEN Raise(games, 400, "Game not started yet")
      ELSE IF req.player_name \notin DOMAIN games[game_code].players
        THEN Raise(games, 404, "Player not found")
      ELSE IF games[game_code].players[req.player_name].completed
        THEN Raise(games, 400, "Player already finished")
      ELSE IF req.index < 0 \/ req.index >= GridSize
        THEN Raise(games, 400, "Invalid cell index")
      ELSE
        Return([games EXCEPT
                  ![game_code].players[req.player_name].grid[req.index] =
                     req.value],
               "Cell updated")

\* The test of the grid with "not cell" for "not cell.strip()".
grid_incomplete_no_strip(grid) ==
  \E i \in DOMAIN grid : i # FreeIndex /\ grid[i] = <<>>

\* "if i != 12 and not cell.strip()" for some cell (lines 273-275)
grid_incomplete(grid) ==
  \E i \in DOMAIN grid : i # FreeIndex /\ Strip(grid[i]) = <<>>

\* finish_game without its test of `completed`: a player finishes again.
finish_game_again(req, now) ==
  LET game_code == Upper(req.game_code)
  IN  IF game_code \notin DOMAIN games
        THEN Raise(games, 404, "Game not found")
      ELSE IF req.player_name \notin DOMAIN games[game_code].players
        THEN Raise(games, 404, "Player not found")
      ELSE IF grid_incomplete(games[game_code].players[req.player_name].grid)
        THEN Raise(games, 400, "Not all cells are filled")
      ELSE
        LET marked ==
              [games EXCEPT
                 ![game_code].players[req.player_name].completed = TRUE,
                 ![game_code].players[req.player_name].finish_time = now]
            rec == [name |-> req.player_name,
                    time |-> now,
                    elapsed |-> now - games[game_code].start_time]
            finished == SortByElapsed(Append(games[game_code].finished, rec))
        IN  Publish([marked EXCEPT ![game_code].finished = finished],
                    [type |-> "player_finished",
                     player_name |-> req.player_name,
                     finish_time |-> now,
                     position |-> Len(finished)])

\* finish_game up to its broadcast (lines 256-296); now is time.time().
\* With start_time None the subtraction of line 284 raises TypeError after
\* lines 278-279 have marked the player.
finish_game(req, now) ==
  LET game_code == Upper(req.game_code)
  IN  IF game_code \notin DOMAIN games
        THEN Raise(games, 404, "Game not found")
      ELSE IF req.player_name \notin DOMAIN games[game_code].players
        THEN Raise(games, 404, "Player not found")
      ELSE IF games[game_code].players[req.player_name].completed
        THEN Raise(games, 400, "Player already finished")
      ELSE IF grid_incomplete(games[game_code].players[req.player_name].grid)
        THEN Raise(games, 400, "Not all cells are filled")
      ELSE
        LET marked ==
              [games EXCEPT
                 ![game_code].players[req.player_name].completed = TRUE,
                 ![game_code].players[req.player_name].finish_time = now]
        IN  IF games[game_code].start_time = None
              THEN Raise(marked, 500, "TypeError")
            ELSE
              LET rec == [name |-> req.player_name,
                          time |-> now,
                          elapsed |-> now - games[game_code].start_time]
                  finished ==
                    SortByElapsed(Append(games[game_code].finished, rec))
              IN  Publish([marked EXCEPT ![game_code].finished = finished],
                          [type |-> "player_finished",
                           player_name |-> req.player_name,
                           finish_time |-> now,
                           position |-> Len(finished)])

\* The return statement after `await manager.broadcast` (lines 171, 200, 226,
\* 298), evaluated on the registry g as it is when broadcast has returned.
after_broadcast(req, g) ==
  LET game_code == Upper(req.game_code)
  IN  CASE req.op = "join" ->
             Response(req, 200, "Joined successfully", 0)
        [] req.op = "update_cell" ->
             Response(req, 200, "Cell updated", 0)
        [] req.op = "start" ->
             Response(req, 200, "Game started", 0)
        [] req.op = "finish" ->
             Response(req, 200, "Game finished", Len(g[game_code].finished))


(***************************************************************************)
(* ConnectionManager.broadcast and the steps of the handlers.              *)
(***************************************************************************)
\* self.active_connections[game_code] when the key is there (line 61)
Connections(code) ==
  IF code \in DOMAIN active_connections
    THEN active_connections[code]
    ELSE <<>>

FreeSlot ==
  CHOOSE s \in Slots \ DOMAIN tasks :
    \A x \in Slots \ DOMAIN tasks : s <= x

\* The positions finish_game has returned to its callers.
Returned(resp) ==
  IF resp.req.op = "finish" /\ resp.status = 200
    THEN {[game_code |-> Upper(resp.req.game_code),
           player_name |-> resp.req.player_name,
           position |-> resp.position]}
    ELSE {}

\* The websockets `removed` have left the list of `code`: they are no longer
\* registered throughout the broadcasts in progress on it.
Unsteady(ts, code, removed) ==
  [s \in DOMAIN ts |->
     IF ts[s].code = code
       THEN [ts[s] EXCEPT !.steady = @ \ removed]
       ELSE ts[s]]

\* One handler from its start to its return, its exception, or its first
\* send_json inside broadcast (lines 61-65).  The message gets the number of
\* the event, which the code does not have, to tell two broadcasts apart.
Handle(req, out) ==
  LET game_code == Upper(req.game_code)
      conns == Connections(game_code)
      msg == [id |-> event_seq + 1] @@ out.msg
  IN  /\ games' = out.games
      /\ called' = req
      /\ UNCHANGED <<active_connections, sockets, inbox, created>>
      /\ IF out.kind # "publish"
           THEN /\ last' = Response(req, out.status, out.detail, 0)
                /\ emitted' = NoEmission
                /\ UNCHANGED <<tasks, event_seq, finish_returns>>
           ELSE /\ event_seq < MaxEvents
                /\ event_seq' = event_seq + 1
                /\ emitted' = Emission(game_code, msg)
                /\ IF conns = <<>>
                     THEN LET resp == after_broadcast(req, out.games)
                          IN  /\ last' = [resp EXCEPT !.pub =
                                            Publication(msg, {}, <<>>)]
                              /\ finish_returns' =
                                   finish_returns \cup Returned(resp)
                              /\ UNCHANGED tasks
                     ELSE /\ DOMAIN tasks # Slots
                          /\ tasks' = tasks @@
                               (FreeSlot :>
                                  [req |-> req, code |-> game_code,
                                   msg |-> msg, idx |-> 1, cur |-> conns[1],
                                   dead |-> <<>>, steady |-> Elems(conns)])
                          /\ last' = NoResponse
                          /\ UNCHANGED finish_returns

\* create_game (lines 120-136)
CreateGame(draws, duration) ==
  /\ Len(created) < MaxGames
  /\ \E i \in DOMAIN draws : draws[i] \notin DOMAIN games
  /\ LET code == create_code(draws)
         req == Request("create", <<>>, "", duration, <<>>)
     IN  /\ games' = Put(games, code, NewGame(code, duration))
         /\ created' = Append(created, code)
         /\ called' = req
         /\ last' = [Response(req, 200, "created", 0) EXCEPT
                       !.req.game_code = code]
  /\ emitted' = NoEmission
  /\ UNCHANGED <<active_connections, sockets, inbox, tasks, event_seq,
                 finish_returns>>

GetGame(code) ==
  LET req == Request("get", code, "", 0, <<>>)
  IN  Handle(req, get_game(req))

JoinGame(code, name) ==
  LET req == Request("join", code, name, 0, <<>>)
  IN  Handle(req, join_game(req))

UpdateCell(code, index, value) ==
  LET req == Request("update_cell", code, "", index, value)
  IN  Handle(req, update_cell(req))

StartGame(code, now) ==
  LET req == Request("start", code, "", 0, <<>>)
  IN  Handle(req, start_game(req, now))

\* get_insights has no await: it runs from its start to its return.
GetInsights(code) ==
  LET req == Request("insights", code, "", 0, <<>>)
      out == get_insights(req)
  IN  /\ games' = out.games
      /\ called' = req
      /\ last' = [Response(req, out.status, out.detail, 0) EXCEPT
                    !.insights = out.insights]
      /\ emitted' = NoEmission
      /\ UNCHANGED <<active_connections, sockets, inbox, tasks, event_seq,
                     created, finish_returns>>

UpdatePlayerCell(code, name, index, value) ==
  LET req == Request("update_player_cell", code, name, index, value)
  IN  Handle(req, update_player_cell(req))

FinishGame(code, name, now) ==
  LET req == Request("finish", code, name, 0, <<>>)
  IN  Handle(req, finish_game(req, now))

\* A handler suspended in `await connection.send_json(message)` goes on
\* (lines 63-71): the send returns, or raises when the connection is no longer
\* open; then the list iterator yields the element at its position, if the
\* list (as it is now) has one, and the handler is suspended in the next send;
\* else the dead connections are removed and the handler returns.  A send to
\* a websocket whose client has stopped reading does not return.
Resume(s) ==
  /\ s \in DOMAIN tasks
  /\ sockets[tasks[s].cur].state # "stuck"
  /\ LET tk == tasks[s]
         w == tk.cur
         sent == sockets[w].state = "open"
         dead == IF sent THEN tk.dead ELSE Append(tk.dead, w)
         conns == active_connections[tk.code]
     IN  /\ inbox' = IF sent
                       THEN [inbox EXCEPT ![w] = Append(@, tk.msg)]
                       ELSE inbox
         /\ IF tk.idx < Len(conns)
              THEN /\ tasks' = [tasks EXCEPT ![s].idx = tk.idx + 1,
                                             ![s].cur = conns[tk.idx + 1],
                                             ![s].dead = dead]
                   /\ last' = NoResponse
                   /\ UNCHANGED <<active_connections, finish_returns>>
              ELSE LET r == remove_dead(conns, dead)
                       resp == IF r.raised
                                 THEN Response(tk.req, 500, "ValueError", 0)
                                 ELSE after_broadcast(tk.req, games)
                       rest == [x \in DOMAIN tasks \ {s} |-> tasks[x]]
                   IN  /\ active_connections' =
                            [active_connections EXCEPT ![tk.code] = r.list]
                       /\ tasks' = Unsteady(rest, tk.code,
                                            Elems(conns) \ Elems(r.list))
                       /\ last' = [resp EXCEPT !.pub =
                                     Publication(tk.msg, tk.steady, dead)]
                       /\ finish_returns' = finish_returns \cup Returned(resp)
  /\ called' = NoRequest
  /\ emitted' = NoEmission
  /\ UNCHANGED <<games, sockets, event_seq, created>>

\* websocket_endpoint up to its first receive_text: ConnectionManager.connect
\* (lines 50-54, 335)
Connect(w, code) ==
  /\ sockets[w].state = "new"
  /\ LET game_code == Upper(code)
     IN  /\ active_connections' =
              Put(active_connections, game_code,
                  Append(Connections(game_code), w))
         /\ sockets' = [sockets EXCEPT ![w] =
                          [state |-> "open", game_code |-> game_code]]
  /\ called' = NoRequest
  /\ last' = NoResponse
  /\ emitted' = NoEmission
  /\ UNCHANGED <<games, inbox, tasks, event_seq, created, finish_returns>>

\* The client of an open websocket stops reading while it keeps the
\* connection: from now on `await connection.send_json(message)` (line 64)
\* neither returns nor raises.
Stall(w) ==
  /\ sockets[w].state = "open"
  /\ sockets' = [sockets EXCEPT ![w].state = "stuck"]
  /\ called' = NoRequest
  /\ last' = NoResponse
  /\ emitted' = NoEmission
  /\ UNCHANGED <<games, active_connections, inbox, tasks, event_seq, created,
                 finish_returns>>

\* The client of an open websocket goes away: from now on a send to it
\* raises, and the endpoint's receive_text raises WebSocketDisconnect.
ClientDisconnect(w) ==
  /\ sockets[w].state \in {"open", "stuck"}
  /\ sockets' = [sockets EXCEPT ![w].state = "gone"]
  /\ called' = NoRequest
  /\ last' = NoResponse
  /\ emitted' = NoEmission
  /\ UNCHANGED <<games, active_connections, inbox, tasks, event_seq, created,
                 finish_returns>>

\* ConnectionManager.disconnect (lines 56-58): list.remove raises ValueError
\* when the websocket is not in the list.
disconnect(w, game_code) ==
  IF game_code \notin DOMAIN active_connections
    THEN [raised |-> FALSE, connections |-> active_connections]
  ELSE IF w \notin Elems(active_connections[game_code])
    THEN [raised |-> TRUE, connections |-> active_connections]
  ELSE [raised |-> FALSE,
        connections |->
          [active_connections EXCEPT ![game_code] = Remove(@, w)]]

\* websocket_endpoint's handler of WebSocketDisconnect (lines 342-343)
EndpointDisconnect(w) ==
  /\ sockets[w].state = "gone"
  /\ LET game_code == sockets[w].game_code
         r == disconnect(w, game_code)
         req == Request("disconnect", game_code, w, 0, <<>>)
     IN  /\ active_connections' = r.connections
         /\ tasks' = Unsteady(tasks, game_code, {w})
         /\ called' = req
         /\ last' = IF r.raised
                      THEN Response(req, 500, "ValueError", 0)
                      ELSE Response(req, 200, "", 0)
  /\ sockets' = [sockets EXCEPT ![w].state = "closed"]
  /\ emitted' = NoEmission
  /\ UNCHANGED <<games, inbox, event_seq, created, finish_returns>>

(***************************************************************************)
(* Inputs.                                                                 *)
(***************************************************************************)
CodeA == <<"A", "B", "7", "7", "7", "7">>
\* the codes requests carry: a code as created, the same in lower case, and a
\* code no session has
RequestCodes == {CodeA, <<"a", "b", "7", "7", "7", "7">>,
                 <<"Z", "Z", "7", "7", "7", "7">>}
Names == {"Ann", "Bob"}
\* cell texts: empty, blank, and two that are not blank
Texts == {<<>>, <<" ">>, <<"x">>, <<" ", "y">>}
RequestIndices == {-1} \cup Indices \cup {GridSize}

Next ==
  \/ CreateGame(<<CodeA>>, DefaultDuration)
  \/ \E c \in RequestCodes : GetGame(c)
  \/ \E c \in RequestCodes, n \in Names : JoinGame(c, n)
  \/ \E c \in RequestCodes, i \in RequestIndices, v \in Texts :
       UpdateCell(c, i, v)
  \/ \E c \in RequestCodes, now \in Times : StartGame(c, now)
  \/ \E c \in RequestCodes, n \in Names, i \in RequestIndices, v \in Texts :
       UpdatePlayerCell(c, n, i, v)
  \/ \E c \in RequestCodes, n \in Names, now \in Times : FinishGame(c, n, now)
  \/ \E c \in RequestCodes : GetInsights(c)
  \/ \E s \in Slots : Resume(s)
  \/ \E w \in WebSockets, c \in RequestCodes : Connect(w, c)
  \/ \E w \in WebSockets : Stall(w)
  \/ \E w \in WebSockets : ClientDisconnect(w)
  \/ \E w \in WebSockets : EndpointDisconnect(w)

Spec == Init /\ [][Next]_vars


(***************************************************************************)
(* The specifications the properties are checked under.  Each one is Next  *)
(* with the requests limited to those its properties are about.            *)
(***************************************************************************)
\* The generator yields one or two codes before create_game leaves its loop.
DrawStreams ==
  {<<c>> : c \in GeneratedCodes} \cup
  {<<c, d>> : c \in GeneratedCodes, d \in GeneratedCodes}

RegistryCodes == {CodeA, <<"a", "b", "7", "7", "7", "7">>,
                  <<"B", "B", "7", "7", "7", "7">>}

\* The registry: sessions are created, looked up and joined.
NextRegistry ==
  \/ \E draws \in DrawStreams : CreateGame(draws, DefaultDuration)
  \/ \E c \in RegistryCodes : GetGame(c)
  \/ \E c \in RegistryCodes : JoinGame(c, "Ann")

SpecRegistry == Init /\ [][NextRegistry]_vars

\* One session in its lobby and its start, with an observer.
NextLobby ==
  \/ CreateGame(<<CodeA>>, DefaultDuration)
  \/ JoinGame(CodeA, "Ann")
  \/ \E i \in {0, FreeIndex} : UpdateCell(CodeA, i, <<"x">>)
  \/ \E now \in Times : StartGame(CodeA, now)
  \/ Connect("w1", CodeA)
  \/ \E s \in Slots : Resume(s)

SpecLobby == Init /\ [][NextLobby]_vars

\* One player fills a grid and finishes.
NextGrid ==
  \/ CreateGame(<<CodeA>>, DefaultDuration)
  \/ JoinGame(CodeA, "Ann")
  \/ StartGame(CodeA, 0)
  \/ \E i \in Indices, v \in Texts : UpdatePlayerCell(CodeA, "Ann", i, v)
  \/ \E n \in Names, now \in Times : FinishGame(CodeA, n, now)

SpecGrid == Init /\ [][NextGrid]_vars

\* The grid of one player under every kind of update request, with an
\* observer.
NextCell ==
  \/ CreateGame(<<CodeA>>, DefaultDuration)
  \/ JoinGame(CodeA, "Ann")
  \/ StartGame(CodeA, 0)
  \/ \E n \in Names, i \in RequestIndices, v \in {<<>>, <<"x">>} :
       UpdatePlayerCell(CodeA, n, i, v)
  \/ \E now \in Times : FinishGame(CodeA, "Ann", now)
  \/ Connect("w1", CodeA)
  \/ \E s \in Slots : Resume(s)

SpecCell == Init /\ [][NextCell]_vars

\* The next cell a player's client fills: the clients of this specification
\* fill the cells other than the free one in ascending order, each once.
IsNextCell(code, n, i) ==
  /\ code \in DOMAIN games
  /\ n \in DOMAIN games[code].players
  /\ i # FreeIndex
  /\ games[code].players[n].grid[i] = <<>>
  /\ \A j \in 0 .. (i - 1) :
       j # FreeIndex => games[code].players[n].grid[j] # <<>>

\* Two players fill their grids and finish, with an observer.
NextRank ==
  \/ CreateGame(<<CodeA>>, DefaultDuration)
  \/ \E n \in Names : JoinGame(CodeA, n)
  \/ StartGame(CodeA, 0)
  \/ \E n \in Names, i \in Indices :
       IsNextCell(CodeA, n, i) /\ UpdatePlayerCell(CodeA, n, i, <<"x">>)
  \/ \E n \in Names, now \in Times : FinishGame(CodeA, n, now)
  \/ Connect("w1", CodeA)
  \/ \E s \in Slots : Resume(s)

SpecRank == Init /\ [][NextRank]_vars

\* The hub: observers come and go while joins are broadcast.
NextHub ==
  \/ CreateGame(<<CodeA>>, DefaultDuration)
  \/ \E n \in Names : JoinGame(CodeA, n)
  \/ \E w \in WebSockets : Connect(w, CodeA)
  \/ \E w \in WebSockets : ClientDisconnect(w)
  \/ \E w \in WebSockets : EndpointDisconnect(w)
  \/ \E s \in Slots : Resume(s)

SpecHub == Init /\ [][NextHub]_vars

\* The hub with sends that keep the order of their calls on each websocket:
\* a broadcast resumes only while no other broadcast is suspended in a send on
\* the same websocket, so no step depends on the order in which the library
\* completes two sends on one websocket.
ResumeAlone(s) ==
  /\ s \in DOMAIN tasks
  /\ \A t \in DOMAIN tasks \ {s} : tasks[t].cur # tasks[s].cur
  /\ Resume(s)

NextOrder ==
  \/ CreateGame(<<CodeA>>, DefaultDuration)
  \/ \E n \in Names : JoinGame(CodeA, n)
  \/ \E w \in WebSockets : Connect(w, CodeA)
  \/ \E w \in WebSockets : ClientDisconnect(w)
  \/ \E w \in WebSockets : EndpointDisconnect(w)
  \/ \E s \in Slots : ResumeAlone(s)

SpecOrder == Init /\ [][NextOrder]_vars

\* The hub with a client that may stop reading.  The event loop runs every
\* handler that can go on: each suspended broadcast is resumed when its send
\* has returned or raised.
NextStuck ==
  \/ CreateGame(<<CodeA>>, DefaultDuration)
  \/ \E n \in Names : JoinGame(CodeA, n)
  \/ \E w \in {"w1", "w2"} : Connect(w, CodeA)
  \/ \E w \in {"w1", "w2"} : Stall(w)
  \/ \E w \in {"w1", "w2"} : ClientDisconnect(w)
  \/ \E w \in {"w1", "w2"} : EndpointDisconnect(w)
  \/ \E s \in Slots : Resume(s)

SpecStuck ==
  /\ Init
  /\ [][NextStuck]_vars
  /\ \A s \in Slots : WF_vars(Resume(s))

\* The insights of one session whose players enter texts at a prompt and at
\* the free index.
NextInsights ==
  \/ CreateGame(<<CodeA>>, DefaultDuration)
  \/ \E n \in Names : JoinGame(CodeA, n)
  \/ StartGame(CodeA, 0)
  \/ \E n \in Names, i \in {0, FreeIndex}, v \in Texts :
       UpdatePlayerCell(CodeA, n, i, v)
  \/ \E c \in RegistryCodes : GetInsights(c)

SpecInsights == Init /\ [][NextInsights]_vars

(***************************************************************************)
(* Properties.                                                             *)
(***************************************************************************)
NoDuplicates(seq) == \A i, j \in DOMAIN seq : i # j => seq[i] # seq[j]

\* The session a request names and the entry of the player it names, in the
\* state the handler starts in.
KnownGame(req) == Upper(req.game_code) \in DOMAIN games
KnownPlayer(req) ==
  /\ KnownGame(req)
  /\ req.player_name \in DOMAIN games[Upper(req.game_code)].players

\* C1: the codes create_game returns are pairwise distinct; a create never
\* returns a code that is a key of games when it is called, and it leaves
\* every session that exists as it is.
C1_CreateReturnsFreshCodes ==
  /\ [](NoDuplicates(created))
  /\ [][called'.op = "create" =>
          /\ last'.req.game_code \notin DOMAIN games
          /\ \A c \in DOMAIN games : games'[c] = games[c]]_vars

\* A second session has been created beside a first one that has a player.
C1_Witness ==
  /\ Len(created) = 2
  /\ last.req.op = "create"
  /\ last.req.game_code = created[2]
  /\ DOMAIN games[created[1]].players # {}

\* C2: a join with a name that is in the roster changes nothing and emits no
\* event; player_joined is emitted only by a join with a name that is not in
\* the roster, and carries the size of the roster with that name added.
C2_JoinIdempotent ==
  [][/\ (called'.op = "join" /\ KnownPlayer(called'))
          => /\ games' = games
             /\ emitted' = NoEmission
             /\ tasks' = tasks
     /\ emitted'.msg.type = "player_joined"
          => LET code == emitted'.game_code
                 name == emitted'.msg.player_name
             IN  /\ called'.op = "join"
                 /\ called'.player_name = name
                 /\ name \notin DOMAIN games[code].players
                 /\ DOMAIN games'[code].players =
                      DOMAIN games[code].players \cup {name}
                 /\ emitted'.msg.player_count =
                      Cardinality(DOMAIN games[code].players) + 1
                 /\ emitted'.msg.player_count =
                      Cardinality(DOMAIN games'[code].players)]_vars

\* A join has found its name in the roster while the join that entered the
\* name is still inside broadcast.
C2_Witness ==
  /\ last.req.op = "join"
  /\ last.detail = "Player already in game"
  /\ \E s \in DOMAIN tasks :
       /\ tasks[s].req.op = "join"
       /\ tasks[s].req.player_name = last.req.player_name
       /\ tasks[s].req.game_code = last.req.game_code

\* C3, as claimed: update_cell with the free index on an existing session
\* fails with "Cannot edit FREE SPACE" in every phase.
C3_AlwaysImmutableCell ==
  [][(called'.op = "update_cell" /\ called'.index = FreeIndex
        /\ KnownGame(called'))
       => last'.detail = "Cannot edit FREE SPACE"]_vars

\* C3, amended: update_cell with the free index on an existing session always
\* fails with status 400 and changes nothing: with "Cannot edit FREE SPACE"
\* while the session has not started, with "Cannot edit cells after game
\* started" once it has.
C3_FreeCellNeverEdited ==
  [][(called'.op = "update_cell" /\ called'.index = FreeIndex
        /\ KnownGame(called'))
       => /\ last'.status = 400
          /\ games' = games
          /\ emitted' = NoEmission
          /\ tasks' = tasks
          /\ last'.detail =
               IF games[Upper(called'.game_code)].started
                 THEN "Cannot edit cells after game started"
                 ELSE "Cannot edit FREE SPACE"]_vars

\* An edit of the free cell of a started session has been refused with the
\* error of the phase.
C3_Witness ==
  /\ last.req.op = "update_cell"
  /\ last.req.index = FreeIndex
  /\ last.detail = "Cannot edit cells after game started"
  /\ games[Upper(last.req.game_code)].cells = get_default_cells

\* C4: once a session has started it stays started with the same start_time;
\* a start_game on a started session fails with "Game already started", also
\* while the start that succeeded is still inside broadcast; game_started is
\* emitted only by a start on a session that has not started.
C4_StartOnce ==
  [][/\ \A c \in DOMAIN games :
          games[c].started
            => /\ games'[c].started
               /\ games'[c].start_time = games[c].start_time
     /\ (called'.op = "start" /\ KnownGame(called')
           /\ games[Upper(called'.game_code)].started)
          => /\ last'.status = 400
             /\ last'.detail = "Game already started"
             /\ emitted' = NoEmission
             /\ tasks' = tasks
     /\ emitted'.msg.type = "game_started"
          => /\ ~games[emitted'.game_code].started
             /\ games'[emitted'.game_code].start_time =
                  emitted'.msg.start_time]_vars

\* A second start has been refused while the first is inside broadcast.
C4_Witness ==
  /\ last.req.op = "start"
  /\ last.detail = "Game already started"
  /\ \E s \in DOMAIN tasks :
       /\ tasks[s].req.op = "start"
       /\ tasks[s].req.game_code = last.req.game_code

\* "blank or whitespace-only"
IsBlank(text) == \A k \in DOMAIN text : text[k] \in Whitespace

\* C5: for an existing session and an existing player of it, finish_game
\* fails with "Not all cells are filled" exactly when some cell of the
\* player's grid other than the free one is blank or whitespace-only when it
\* is called.
C5_IncompleteGridIff ==
  [][(called'.op = "finish" /\ KnownPlayer(called'))
       => LET grid == games[Upper(called'.game_code)]
                        .players[called'.player_name].grid
          IN  (last'.status = 400 /\ last'.detail = "Not all cells are filled")
                <=> \E i \in Indices \ {FreeIndex} : IsBlank(grid[i])]_vars

\* A finish has failed on a grid whose only blank cell beside the free one
\* holds whitespace.
C5_Witness ==
  /\ last.req.op = "finish"
  /\ last.detail = "Not all cells are filled"
  /\ KnownPlayer(last.req)
  /\ LET grid == games[Upper(last.req.game_code)]
                   .players[last.req.player_name].grid
     IN  /\ \A i \in Indices \ {FreeIndex} : grid[i] # <<>>
         /\ \E i \in Indices \ {FreeIndex} : ~IsBlank(grid[i])

\* A finish has succeeded on a grid whose free cell is empty.
C5_FreeCellIgnored ==
  /\ last.req.op = "finish"
  /\ last.status = 200
  /\ games[Upper(last.req.game_code)]
       .players[last.req.player_name].grid[FreeIndex] = <<>>

IsSortedByElapsed(list) ==
  \A i, j \in DOMAIN list : i < j => list[i].elapsed <= list[j].elapsed

\* C6: in every reachable state the finished list of every session is in
\* ascending order of elapsed time.
C6_FinishedSorted ==
  \A c \in DOMAIN games : IsSortedByElapsed(games[c].finished)

\* The player who finished second has the smaller elapsed time and stands
\* first.
C6_Witness ==
  \E c \in DOMAIN games :
    /\ Len(games[c].finished) = 2
    /\ games[c].finished[1].elapsed < games[c].finished[2].elapsed
    /\ \E w \in WebSockets :
         \E k \in DOMAIN inbox[w] :
           /\ inbox[w][k].type = "player_finished"
           /\ inbox[w][k].player_name = games[c].finished[1].name
           /\ inbox[w][k].position = 2

\* C7: the position of a player_finished event is the place of its player in
\* the finished list, in ascending order of elapsed time, right after the
\* player's record is inserted.
C7_RankIsPlaceInFinished ==
  emitted.msg.type = "player_finished"
    => LET finished == games[emitted.game_code].finished
       IN  /\ emitted.msg.position \in DOMAIN finished
           /\ finished[emitted.msg.position].name = emitted.msg.player_name

\* C8: the positions finish_game returns to the callers of the successful
\* finishes of one session are pairwise distinct.
C8_ReturnedRanksDistinct ==
  \A a, b \in finish_returns :
    (a.game_code = b.game_code /\ a.player_name # b.player_name)
      => a.position # b.position

Count(list, x) == Cardinality({k \in DOMAIN list : list[k] = x})

\* C9: a broadcast that has ended has delivered its message exactly once to
\* every websocket that was in the list of the code from its start to its
\* end and whose send did not raise.
C9_DeliversToEveryObserver ==
  last.pub.msg # NoEvent
    => \A w \in last.pub.steady :
         w \notin Elems(last.pub.dead) => Count(inbox[w], last.pub.msg) = 1

\* C10: no broadcast raises: the handler that called it returns its result.
C10_BroadcastNeverRaises ==
  last.pub.msg # NoEvent => last.status = 200

\* C11: manager.disconnect for a websocket that is no longer in the list of
\* its code, or for a code that has no list, raises nothing and leaves the
\* lists as they are.
C11_DisconnectIdempotent ==
  [][(/\ called'.op = "disconnect"
      /\ \/ called'.game_code \notin DOMAIN active_connections
         \/ called'.player_name
              \notin Elems(active_connections[called'.game_code]))
       => /\ last'.status = 200
          /\ active_connections' = active_connections]_vars

\* C12: a call of join_game, update_cell, start_game, update_player_cell or
\* finish_game that ends in a failure has changed nothing in games and has
\* emitted no event, neither in the step that ends it nor before it.
C12_FailureChangesNothing ==
  [][(/\ last'.req.op \in {"join", "update_cell", "start",
                           "update_player_cell", "finish"}
      /\ last'.status # 200)
       => /\ games' = games
          /\ emitted' = NoEmission
          /\ last'.pub.msg = NoEvent]_vars

\* C13: every websocket receives the events of a session in the order in
\* which the handlers applied their changes: the events of an inbox are in
\* ascending order of the number they got when they were emitted.
C13_EventsInOrder ==
  \A w \in WebSockets :
    \A i, j \in DOMAIN inbox[w] : i < j => inbox[w][i].id < inbox[w][j].id

\* C14: a websocket on which delivery never completes does not stall a
\* broadcast: every handler that is suspended in a broadcast eventually
\* returns.
C14_BroadcastReturns ==
  \A s \in Slots : (s \in DOMAIN tasks) ~> (s \notin DOMAIN tasks)

\* C15: every handler that takes a code looks it up in upper case: a request
\* whose code is, letter case apart, the code of a session is never answered
\* with "Game not found".
C15_CodeCaseInsensitive ==
  [][(/\ called'.op \in {"get", "join", "update_cell", "start",
                         "update_player_cell", "finish", "insights"}
      /\ Upper(called'.game_code) \in DOMAIN games)
       => last'.status # 404]_vars

RECURSIVE SumCounts(_, _)
SumCounts(counts, keys) ==
  IF keys = {}
    THEN 0
    ELSE LET k == CHOOSE x \in keys : TRUE
         IN  counts[k] + SumCounts(counts, keys \ {k})

\* C16: get_insights changes nothing; for a session that exists it returns
\* one record for each index other than the free one, in which total_entries
\* is the number of players whose entry at the index is not blank,
\* name_counts maps each value that such a player entered to the number of
\* players who entered it, these numbers add up to total_entries, and
\* unique_entries is the number of the values.
C16_InsightsAggregate ==
  [][(called'.op = "insights" /\ last'.status = 200)
       => LET players == games[called'.game_code].players
              insights == last'.insights
          IN  /\ UNCHANGED <<games, active_connections, tasks, inbox>>
              /\ emitted' = NoEmission
              /\ Len(insights) = GridSize - 1
              /\ \A idx \in Indices \ {FreeIndex} :
                   \E k \in DOMAIN insights : insights[k].index = idx
              /\ \A k \in DOMAIN insights :
                   LET r == insights[k]
                       answered == {n \in DOMAIN players :
                                      ~IsBlank(players[n].grid[r.index])}
                       values == {players[n].grid[r.index] : n \in answered}
                   IN  /\ r.index # FreeIndex
                       /\ r.total_entries = Cardinality(answered)
                       /\ DOMAIN r.name_counts = values
                       /\ \A v \in values :
                            r.name_counts[v] =
                              Cardinality({n \in answered :
                                             players[n].grid[r.index] = v})
                       /\ SumCounts(r.name_counts, values) = r.total_entries
                       /\ r.unique_entries = Cardinality(values)]_vars

\* Two players have entered the same text at a prompt and the insights report
\* two entries and one value for it.
C16_Witness ==
  /\ last.req.op = "insights"
  /\ last.status = 200
  /\ \E k \in DOMAIN last.insights :
       /\ last.insights[k].total_entries = 2
       /\ last.insights[k].unique_entries = 1

\* C17: in every state the finished list of a session has at most one record
\* for a name, and a player of the session has a record in it exactly when
\* the player is completed.
C17_OneRecordPerCompletedPlayer ==
  \A c \in DOMAIN games :
    LET finished == games[c].finished
        players == games[c].players
    IN  /\ \A i, j \in DOMAIN finished :
             finished[i].name = finished[j].name => i = j
        /\ \A k \in DOMAIN finished : finished[k].name \in DOMAIN players
        /\ \A n \in DOMAIN players :
             players[n].completed
               <=> \E k \in DOMAIN finished : finished[k].name = n

\* A second finish of a player has been refused while the first one is still
\* suspended in its broadcast.
C17_Witness ==
  /\ last.req.op = "finish"
  /\ last.detail = "Player already finished"
  /\ \E s \in DOMAIN tasks :
       /\ tasks[s].req.op = "finish"
       /\ tasks[s].req.player_name = last.req.player_name
       /\ tasks[s].code = Upper(last.req.game_code)

\* C18: update_player_cell succeeds only for a started session, a player of
\* it who is not completed and an index of the grid; when it succeeds it
\* changes the entry of that player's grid at the index to the value and
\* nothing else; it emits no event, and changes nothing when it fails.
C18_UpdatePlayerCellFrame ==
  [][called'.op = "update_player_cell"
       => LET req == called'
              game_code == Upper(req.game_code)
          IN  /\ emitted' = NoEmission
              /\ last'.req = req
              /\ last'.pub = NoPublication
              /\ UNCHANGED <<active_connections, tasks, inbox>>
              /\ last'.status = 200
                   => /\ game_code \in DOMAIN games
                      /\ games[game_code].started
                      /\ req.player_name \in DOMAIN games[game_code].players
                      /\ ~games[game_code].players[req.player_name].completed
                      /\ req.index \in Indices
                      /\ games' =
                           [games EXCEPT
                              ![game_code].players[req.player_name]
                                 .grid[req.index] = req.value]
              /\ last'.status # 200 => games' = games]_vars

\* An update has put a text into a cell of a player beside a cell filled
\* before.
C18_Witness ==
  /\ last.req.op = "update_player_cell"
  /\ last.status = 200
  /\ LET grid == games[Upper(last.req.game_code)]
                   .players[last.req.player_name].grid
     IN  /\ grid[last.req.index] = last.req.value
         /\ last.req.value # <<>>
         /\ \E i \in Indices \ {last.req.index} : grid[i] # <<>>

\* C19: the position a successful finish_game returns to its caller is the
\* position of the player_finished event that call emitted.
C19_ReturnedRankIsEventPosition ==
  (last.req.op = "finish" /\ last.status = 200)
    => last.position = last.pub.msg.position

\* C20: a session that is not started has no start_time, only blank grids, no
\* completed player and an empty finished list, and a started one has a
\* start_time; no finish_game succeeds for a session that is not started, and
\* none fails in the subtraction that computes the elapsed time.
C20_LobbyHasNoFinish ==
  /\ [](\A c \in DOMAIN games :
          /\ games[c].started <=> games[c].start_time # None
          /\ ~games[c].started
               => /\ games[c].finished = <<>>
                  /\ \A n \in DOMAIN games[c].players :
                       /\ ~games[c].players[n].completed
                       /\ \A i \in Indices :
                            games[c].players[n].grid[i] = <<>>)
  /\ [](last.detail # "TypeError")
  /\ [][(/\ called'.op = "finish"
         /\ KnownGame(called')
         /\ ~games[Upper(called'.game_code)].started)
          => /\ last'.status \in {400, 404}
             /\ games' = games]_vars

\* A player of a session in its lobby has called finish_game and has been
\* refused for the blank grid.
C20_Witness ==
  /\ last.req.op = "finish"
  /\ last.detail = "Not all cells are filled"
  /\ ~games[Upper(last.req.game_code)].started

=============================================================================
